---- MODULE Spec2Model ----
(***************************************************************************)
(* ether_exporter: the collection cycle (EthereumCollector.collect) and    *)
(* the exporter loop around it (_collect_to_text, _collect_to_http and the *)
(* __main__ block).                                                        *)
(*                                                                         *)
(* One action per RPC call of collect: the node is an external process, so *)
(* two reads of the same web3 property are two round trips that may be     *)
(* answered differently.  The samples of a metric family are kept as a bag *)
(* (the exposition does not depend on the order of add_metric calls of one *)
(* family, and a Python set is iterated in an unspecified order).          *)
(***************************************************************************)
EXTENDS Integers, Sequences, FiniteSets, Bags, TLC

(***************************************************************************)
(* Bounds of the model.                                                    *)
(***************************************************************************)
\* sync heights (highestBlock, currentBlock) range over 0..MaxHeight
MaxHeight == 1
\* peer counts range over 0..MaxPeers
MaxPeers == 1

(***************************************************************************)
(* Values the node can report.                                             *)
(***************************************************************************)
\* An amount too large for a machine integer, as a decimal: c * 10^e, with c
\* not divisible by 10 (or c = 0 and e = 0), the way decimal.Decimal keeps a
\* coefficient and an exponent.
Dec(c, e) == [c |-> c, e |-> e]

BlockNumbers == {12345}
GasPrices == {Dec(2, 10)}
HashRates == {7}
BalancesWei == {Dec(2, 18), Dec(5, 17)}
Heights == 0..MaxHeight
PeerCounts == 0..MaxPeers

\* requests.exceptions.ConnectionError / ReadTimeout: the node is unreachable
\* or timed out (ConnectivityError).  ValueError: web3 got an error or an
\* unusable answer from the node (ProtocolError).
ConnectivityErrors == {"ConnectionError", "ReadTimeout"}
ProtocolErrors == {"ValueError"}
RpcErrors == ConnectivityErrors \cup ProtocolErrors

\* The outcome of one RPC call: a value, or the exception the call raises.
Ok(v) == [exc |-> "none", val |-> v]
Fails(S, dummy) == {[exc |-> e, val |-> dummy] : e \in S}

\* web3.eth.syncing is False when the node is fully synced, else a dictionary.
NotSyncing == [syncing |-> FALSE, highestBlock |-> 0, currentBlock |-> 0]
Progress(h, c) == [syncing |-> TRUE, highestBlock |-> h, currentBlock |-> c]
SyncStates == {NotSyncing} \cup {Progress(h, c) : h \in Heights, c \in Heights}

\* Every answer a node can give to each query.
AnyNode ==
  [accounts    |-> {Ok(l) : l \in {<<>>, <<"0xA">>, <<"0xA", "0xB">>}}
                     \cup Fails(RpcErrors, <<>>),
   getBalance  |-> {Ok(w) : w \in BalancesWei} \cup Fails(RpcErrors, Dec(0, 0)),
   blockNumber |-> {Ok(n) : n \in BlockNumbers} \cup Fails(RpcErrors, 0),
   gasPrice    |-> {Ok(g) : g \in GasPrices} \cup Fails(RpcErrors, Dec(0, 0)),
   mining      |-> {Ok(b) : b \in BOOLEAN} \cup Fails(RpcErrors, FALSE),
   hashrate    |-> {Ok(r) : r \in HashRates} \cup Fails(RpcErrors, 0),
   syncing     |-> {Ok(s) : s \in SyncStates} \cup Fails(RpcErrors, NotSyncing),
   peerCount   |-> {Ok(p) : p \in PeerCounts} \cup Fails(RpcErrors, 0)]

\* A node that is either unreachable or in one fixed condition: mining, and
\* syncing at height 0 of 1, with one peer, and with one account or none.
SmallNode ==
  [accounts    |-> {Ok(<<"0xA">>), Ok(<<>>)} \cup Fails({"ConnectionError"}, <<>>),
   getBalance  |-> {Ok(Dec(2, 18))} \cup Fails({"ConnectionError", "ValueError"}, Dec(0, 0)),
   blockNumber |-> {Ok(12345)} \cup Fails({"ConnectionError"}, 0),
   gasPrice    |-> {Ok(Dec(2, 10))} \cup Fails({"ValueError"}, Dec(0, 0)),
   mining      |-> {Ok(TRUE)} \cup Fails({"ConnectionError"}, FALSE),
   hashrate    |-> {Ok(7)} \cup Fails({"ReadTimeout"}, 0),
   syncing     |-> {Ok(Progress(1, 0))} \cup Fails({"ConnectionError"}, NotSyncing),
   peerCount   |-> {Ok(1)} \cup Fails({"ConnectionError"}, 0)]

\* The node of the end-to-end scenario: block 12345, gas price 2*10^10 wei,
\* not mining, fully synced, 5 peers, account 0xABC holding 2*10^18 wei; and
\* the same node unreachable, mining, syncing, without peers, or holding
\* another balance.
ScenarioNode ==
  [accounts    |-> {Ok(<<"0xABC">>)} \cup Fails({"ConnectionError"}, <<>>),
   getBalance  |-> {Ok(Dec(2, 18)), Ok(Dec(5, 17))}
                     \cup Fails({"ConnectionError", "ValueError"}, Dec(0, 0)),
   blockNumber |-> {Ok(12345)} \cup Fails({"ConnectionError"}, 0),
   gasPrice    |-> {Ok(Dec(2, 10))} \cup Fails({"ValueError"}, Dec(0, 0)),
   mining      |-> {Ok(FALSE), Ok(TRUE)} \cup Fails({"ConnectionError"}, FALSE),
   hashrate    |-> {Ok(7)} \cup Fails({"ReadTimeout"}, 0),
   syncing     |-> {Ok(NotSyncing), Ok(Progress(1, 0))}
                     \cup Fails({"ConnectionError"}, NotSyncing),
   peerCount   |-> {Ok(5), Ok(0)} \cup Fails({"ConnectionError"}, 0)]

(***************************************************************************)
(* Settings.                                                               *)
(***************************************************************************)
DefaultSettings ==
  [additional_accounts |-> <<>>, enable_accounts |-> "on", export |-> "text"]

\* What /etc/ether_exporter.yml can turn the defaults into.
AdditionalChoices == {<<>>, <<"0xB">>, <<"0xC">>}
SettingsChoices ==
  [additional_accounts : AdditionalChoices,
   enable_accounts : {"on", "off"},
   export : {"text", "http"}]

(***************************************************************************)
(* State.                                                                  *)
(***************************************************************************)
VARIABLES
  settings,   \* the global settings dictionary
  node,       \* the answers the node behind ether_uri can give to each query
  mainpc,     \* where the main thread is
  pc,         \* where the running collect() call is
  metrics,    \* collect's local dictionary of metric families
  accounts,   \* collect's local set of accounts
  todo,       \* the accounts the for loop has still to visit
  highest,    \* highestBlock as read for the left operand of line 146
  error,      \* the exception that left collect(), if any
  calls,      \* history: the RPC calls issued by this collect() call, in order
  failed,     \* history: the calls of this cycle whose exception was handled
  seen,       \* history: the values the RPC calls of this cycle returned
  file,       \* content of {prom_folder}/ether-exporter.prom
  response    \* the last HTTP response of the scrape endpoint

vars == <<settings, node, mainpc, pc, metrics, accounts, todo, highest, error,
          calls, failed, seen, file, response>>

collectVars == <<pc, metrics, accounts, todo, highest, error, calls, failed, seen>>
mainVars == <<mainpc, file, response>>

(***************************************************************************)
(* Metric families.                                                        *)
(***************************************************************************)
GaugeMetricFamily(name, labels) ==
  [name |-> name, type |-> "gauge", labels |-> labels, samples |-> EmptyBag]

\* lines 58-69: keyed by the dictionary key, each family carrying its name
ScalarMetrics ==
  [ether_current_block |-> GaugeMetricFamily("ether_block_number", <<>>),
   ether_gas_price_wei |-> GaugeMetricFamily("ether_gas_price_wei", <<>>),
   ether_mining        |-> GaugeMetricFamily("ether_mining", <<>>),
   ether_hash_rate     |-> GaugeMetricFamily("ether_hash_rate", <<>>),
   ether_syncing       |-> GaugeMetricFamily("ether_syncing", <<>>),
   ether_lag           |-> GaugeMetricFamily("ether_lag", <<>>),
   ether_peers         |-> GaugeMetricFamily("ether_peers", <<>>)]

\* lines 70-77
AccountMetrics ==
  [account_balance |->
     GaugeMetricFamily("account_balance", <<"currency", "account", "type">>)]

AccountsEnabled(s) == s.enable_accounts = "on"

\* the dictionary as a module-level object that outlives the call: the
\* families still hold the samples of the cycle written last
InitialMetricsKept(s) ==
  IF file = <<>>
    THEN IF AccountsEnabled(s) THEN ScalarMetrics @@ AccountMetrics ELSE ScalarMetrics
    ELSE [k \in DOMAIN (IF AccountsEnabled(s) THEN ScalarMetrics @@ AccountMetrics
                                               ELSE ScalarMetrics) |->
            [(ScalarMetrics @@ AccountMetrics)[k] EXCEPT
               !.samples = (CHOOSE f \in {file[i] : i \in DOMAIN file} :
                              f.name = (ScalarMetrics @@ AccountMetrics)[k].name).samples]]

InitialMetrics(s) ==
  IF AccountsEnabled(s) THEN ScalarMetrics @@ AccountMetrics ELSE ScalarMetrics

Sample(labels, value) == [labels |-> labels, value |-> value]

add_metric(m, key, labels, value) ==
  [m EXCEPT ![key].samples = @ (+) SetToBag({Sample(labels, value)})]

\* web3.fromWei(n, 'ether'): Decimal(n) / Decimal(10**18), exact
\* a conversion to gwei, the unit next to ether in web3's table
fromWeiToGwei(w) == IF w.c = 0 THEN Dec(0, 0) ELSE Dec(w.c, w.e - 9)

\* web3.fromWei(wei, 'ether'): the amount divided by 10^18
fromWei(w) == IF w.c = 0 THEN Dec(0, 0) ELSE Dec(w.c, w.e - 18)

ToSet(seq) == {seq[i] : i \in DOMAIN seq}

(***************************************************************************)
(* The except clauses of collect.                                          *)
(***************************************************************************)
CaughtBalance == {"ConnectionError", "ReadTimeout"}
CaughtBlockNumber == {"ConnectionError", "ReadTimeout", "ValueError"}
\* lines 114-122 with the except ValueError clause missing
CaughtGasPriceNoValueError == {"ConnectionError", "ReadTimeout"}
CaughtGasPrice == {"ConnectionError", "ReadTimeout", "ValueError"}
CaughtMining == {"ConnectionError", "ReadTimeout", "ValueError"}
CaughtSyncing == {"ConnectionError", "ReadTimeout", "ValueError"}
CaughtPeers == {"ConnectionError", "ReadTimeout", "ValueError"}

\* The file before the first write, and the endpoint before the first answer.
NoFile == <<>>
NoResponse == [status |-> "none", body |-> <<>>]

\* the keys of the metrics dictionary, in insertion order (lines 58-77)
KeyOrder ==
  <<"ether_current_block", "ether_gas_price_wei", "ether_mining", "ether_hash_rate",
    "ether_syncing", "ether_lag", "ether_peers", "account_balance">>

NoError == [type |-> "none", at |-> "none"]
NoMetrics == <<>>
NothingSeen ==
  [accounts |-> <<>>, getBalance |-> {}, blockNumber |-> <<>>, gasPrice |-> <<>>,
   mining |-> <<>>, hashrate |-> <<>>, syncing |-> <<>>, highestBlock |-> <<>>,
   currentBlock |-> <<>>, peerCount |-> <<>>, lags |-> {}, joint |-> <<>>]

\* A handled failure: the call, and the account of a getBalance call.
Failure(q, account) == <<q, account>>

Saw(q, v) == [seen EXCEPT ![q] = Append(@, v)]

\* History: highestBlock - currentBlock of one dictionary returned by
\* web3.eth.syncing. seen.lags holds those of the dictionaries returned so
\* far inside the try block of lines 144-148, and seen.joint tells whether
\* the difference computed at line 146 is one of them.
LagOf(d) == d.highestBlock - d.currentBlock

\* lines 131-132: the else branch of the mining test
NotMiningMetricsNoHashRate(m) == add_metric(m, "ether_mining", <<>>, 0)

NotMiningMetrics(m) ==
  add_metric(add_metric(m, "ether_mining", <<>>, 0), "ether_hash_rate", <<>>, 0)

\* lines 126-141: where control goes after the read of web3.eth.mining: to the
\* read of web3.eth.hashrate when it is true, past the try statement when it
\* is false or when the read raised an exception an except clause names
\* the blocks with the gas price block placed first
BlocksGasPriceFirst ==
  <<"accounts", "gasPrice", "blockNumber", "mining", "syncing", "peerCount", "return">>

\* The blocks of collect() in the order of the source text: the accounts
\* block (line 80), the five try blocks (lines 99, 112, 126, 144, 163) and
\* the yield loop (line 180).
Blocks ==
  <<"accounts", "blockNumber", "gasPrice", "mining", "syncing", "peerCount", "return">>

\* Where control goes when block b is left normally or through one of its
\* except clauses.
After(b) == Blocks[(CHOOSE i \in DOMAIN Blocks : Blocks[i] = b) + 1]

\* an except clause that takes back the reading added at line 128
HashRateFailedMetricsRolledBack(m) ==
  [m EXCEPT !["ether_mining"].samples = EmptyBag]

\* lines 133-141 after web3.eth.hashrate raised: the except clauses only log,
\* the families keep what lines 127-128 added
HashRateFailedMetrics(m) == m

MiningNextHashRateAfterFailure(r) ==
  IF r.exc = "none" /\ ~r.val THEN After("mining") ELSE "hashrate"

MiningNext(r) == IF r.exc = "none" /\ r.val THEN "hashrate" ELSE After("mining")

\* line 146: int(highestBlock - currentBlock)
LagSwapped(h, c) == c - h

Lag(h, c) == h - c

\* lines 81-83: set(web3.eth.accounts), then accounts.add() of every
\* additional account
AccountSetWithoutAdditional(listed, additional) == ToSet(listed)

AccountSet(listed, additional) == ToSet(listed) \cup ToSet(additional)

\* lines 166-167: the else branch of the peer count test; with the branch
\* missing a count of zero would leave ether_peers without a reading
ZeroPeersOmitted(m) == m

ZeroPeersMetrics(m) == add_metric(m, "ether_peers", <<>>, 0)

\* An exception no except clause of the enclosing try matches leaves collect().
Raise(exc, at) ==
  /\ pc' = "raised"
  /\ error' = [type |-> exc, at |-> at]

(***************************************************************************)
(* collect(), lines 57-181.                                                *)
(***************************************************************************)
\* lines 58-80: the families, the Web3 handle, the enable_accounts test
CollectBegin ==
  /\ pc = "called"
  /\ metrics' = InitialMetrics(settings)
  /\ pc' = IF AccountsEnabled(settings) THEN "accounts" ELSE After("accounts")
  /\ UNCHANGED <<settings, node, accounts, todo, highest, error, calls, failed, seen>>
  /\ UNCHANGED mainVars

\* lines 81-84: accounts = set(web3.eth.accounts) plus the additional accounts;
\* no try encloses the call
ListAccounts ==
  /\ pc = "accounts"
  /\ \E r \in node.accounts :
       /\ calls' = Append(calls, "accounts")
       /\ IF r.exc # "none"
            THEN /\ Raise(r.exc, "accounts")
                 /\ UNCHANGED <<accounts, todo, seen>>
            ELSE /\ accounts' = AccountSet(r.val, settings.additional_accounts)
                 /\ todo' = accounts'
                 /\ seen' = Saw("accounts", ToSet(r.val))
                 /\ pc' = IF accounts' = {} THEN After("accounts") ELSE "balance"
                 /\ UNCHANGED error
  /\ UNCHANGED <<settings, node, metrics, highest, failed>>
  /\ UNCHANGED mainVars

\* lines 85-97: one iteration of the for loop over accounts
GetBalance ==
  /\ pc = "balance"
  /\ \E account \in todo, r \in node.getBalance :
       /\ calls' = Append(calls, "getBalance")
       /\ IF r.exc = "none"
            THEN /\ metrics' = add_metric(metrics, "account_balance",
                                          <<"ETH", account, "ether">>, fromWei(r.val))
                 /\ seen' = [seen EXCEPT !.getBalance = @ \cup {<<account, r.val>>}]
                 /\ todo' = todo \ {account}
                 /\ pc' = IF todo' = {} THEN After("accounts") ELSE "balance"
                 /\ UNCHANGED <<failed, error>>
            ELSE IF r.exc \in CaughtBalance
            THEN /\ failed' = failed \cup {Failure("getBalance", account)}
                 /\ todo' = todo \ {account}
                 /\ pc' = IF todo' = {} THEN After("accounts") ELSE "balance"
                 /\ UNCHANGED <<metrics, seen, error>>
            ELSE /\ Raise(r.exc, "getBalance")
                 /\ UNCHANGED <<metrics, seen, failed, todo>>
  /\ UNCHANGED <<settings, node, accounts, highest>>
  /\ UNCHANGED mainVars

\* lines 99-109
BlockNumber ==
  /\ pc = "blockNumber"
  /\ \E r \in node.blockNumber :
       /\ calls' = Append(calls, "blockNumber")
       /\ IF r.exc = "none"
            THEN /\ metrics' = add_metric(metrics, "ether_current_block", <<>>, r.val)
                 /\ seen' = Saw("blockNumber", r.val)
                 /\ pc' = After("blockNumber")
                 /\ UNCHANGED <<failed, error>>
            ELSE IF r.exc \in CaughtBlockNumber
            THEN /\ failed' = failed \cup {Failure("blockNumber", "")}
                 /\ pc' = After("blockNumber")
                 /\ UNCHANGED <<metrics, seen, error>>
            ELSE /\ Raise(r.exc, "blockNumber")
                 /\ UNCHANGED <<metrics, seen, failed>>
  /\ UNCHANGED <<settings, node, accounts, todo, highest>>
  /\ UNCHANGED mainVars

\* lines 112-122
GasPrice ==
  /\ pc = "gasPrice"
  /\ \E r \in node.gasPrice :
       /\ calls' = Append(calls, "gasPrice")
       /\ IF r.exc = "none"
            THEN /\ metrics' = add_metric(metrics, "ether_gas_price_wei", <<>>, r.val)
                 /\ seen' = Saw("gasPrice", r.val)
                 /\ pc' = After("gasPrice")
                 /\ UNCHANGED <<failed, error>>
            ELSE IF r.exc \in CaughtGasPrice
            THEN /\ failed' = failed \cup {Failure("gasPrice", "")}
                 /\ pc' = After("gasPrice")
                 /\ UNCHANGED <<metrics, seen, error>>
            ELSE /\ Raise(r.exc, "gasPrice")
                 /\ UNCHANGED <<metrics, seen, failed>>
  /\ UNCHANGED <<settings, node, accounts, todo, highest>>
  /\ UNCHANGED mainVars

\* lines 126-128 and 130-141: the test of web3.eth.mining and what follows it
\* up to the next RPC call
Mining ==
  /\ pc = "mining"
  /\ \E r \in node.mining :
       /\ calls' = Append(calls, "mining")
       /\ IF r.exc = "none"
            THEN /\ seen' = Saw("mining", r.val)
                 /\ metrics' = IF r.val
                                 THEN add_metric(metrics, "ether_mining", <<>>, 1)
                                 ELSE NotMiningMetrics(metrics)
                 /\ pc' = MiningNext(r)
                 /\ UNCHANGED <<failed, error>>
            ELSE IF r.exc \in CaughtMining
            THEN /\ failed' = failed \cup {Failure("mining", "")}
                 /\ pc' = MiningNext(r)
                 /\ UNCHANGED <<metrics, seen, error>>
            ELSE /\ Raise(r.exc, "mining")
                 /\ UNCHANGED <<metrics, seen, failed>>
  /\ UNCHANGED <<settings, node, accounts, todo, highest>>
  /\ UNCHANGED mainVars

\* line 129, inside the try of lines 126-141
HashRate ==
  /\ pc = "hashrate"
  /\ \E r \in node.hashrate :
       /\ calls' = Append(calls, "hashrate")
       /\ IF r.exc = "none"
            THEN /\ metrics' = add_metric(metrics, "ether_hash_rate", <<>>, r.val)
                 /\ seen' = Saw("hashrate", r.val)
                 /\ pc' = After("mining")
                 /\ UNCHANGED <<failed, error>>
            ELSE IF r.exc \in CaughtMining
            THEN /\ failed' = failed \cup {Failure("hashrate", "")}
                 /\ metrics' = HashRateFailedMetrics(metrics)
                 /\ pc' = After("mining")
                 /\ UNCHANGED <<seen, error>>
            ELSE /\ Raise(r.exc, "hashrate")
                 /\ UNCHANGED <<metrics, seen, failed>>
  /\ UNCHANGED <<settings, node, accounts, todo, highest>>
  /\ UNCHANGED mainVars

\* lines 144-145 and 150-161: the test of web3.eth.syncing (first read)
Syncing ==
  /\ pc = "syncing"
  /\ \E r \in node.syncing :
       /\ calls' = Append(calls, "syncing")
       /\ IF r.exc = "none"
            THEN /\ seen' = IF r.val.syncing
                              THEN [seen EXCEPT !.syncing = Append(@, TRUE),
                                                !.lags = {LagOf(r.val)}]
                              ELSE Saw("syncing", FALSE)
                 /\ IF r.val.syncing
                      THEN /\ pc' = "syncHighest"
                           /\ UNCHANGED metrics
                      ELSE /\ metrics' = add_metric(
                                add_metric(metrics, "ether_syncing", <<>>, 0),
                                "ether_lag", <<>>, 0)
                           /\ pc' = After("syncing")
                 /\ UNCHANGED <<failed, error>>
            ELSE IF r.exc \in CaughtSyncing
            THEN /\ failed' = failed \cup {Failure("syncing", "")}
                 /\ pc' = After("syncing")
                 /\ UNCHANGED <<metrics, seen, error>>
            ELSE /\ Raise(r.exc, "syncing")
                 /\ UNCHANGED <<metrics, seen, failed>>
  /\ UNCHANGED <<settings, node, accounts, todo, highest>>
  /\ UNCHANGED mainVars

\* line 146, left operand: web3.eth.syncing['highestBlock'] (second read);
\* subscripting False raises TypeError, which no except clause names
SyncHighest ==
  /\ pc = "syncHighest"
  /\ \E r \in node.syncing :
       /\ calls' = Append(calls, "syncing")
       /\ IF r.exc = "none"
            THEN /\ seen' = IF r.val.syncing
                              THEN [seen EXCEPT !.syncing = Append(@, TRUE),
                                                !.highestBlock = Append(@, r.val.highestBlock),
                                                !.lags = @ \cup {LagOf(r.val)}]
                              ELSE [seen EXCEPT !.syncing = Append(@, FALSE),
                                                !.lags = {}]
                 /\ IF r.val.syncing
                      THEN /\ highest' = r.val.highestBlock
                           /\ pc' = "syncCurrent"
                           /\ UNCHANGED error
                      ELSE /\ Raise("TypeError", "syncing")
                           /\ UNCHANGED highest
                 /\ UNCHANGED failed
            ELSE IF r.exc \in CaughtSyncing
            THEN /\ failed' = failed \cup {Failure("syncing", "")}
                 /\ pc' = After("syncing")
                 /\ seen' = [seen EXCEPT !.lags = {}]
                 /\ UNCHANGED <<error, highest>>
            ELSE /\ Raise(r.exc, "syncing")
                 /\ UNCHANGED <<seen, failed, highest>>
  /\ UNCHANGED <<settings, node, metrics, accounts, todo>>
  /\ UNCHANGED mainVars

\* lines 146-148: the right operand web3.eth.syncing['currentBlock'] (third
\* read), the subtraction and the two add_metric calls
SyncCurrent ==
  /\ pc = "syncCurrent"
  /\ \E r \in node.syncing :
       /\ calls' = Append(calls, "syncing")
       /\ IF r.exc = "none"
            THEN /\ seen' = IF r.val.syncing
                              THEN [seen EXCEPT !.syncing = Append(@, TRUE),
                                                !.currentBlock = Append(@, r.val.currentBlock),
                                                !.joint = Append(@,
                                                   Lag(highest, r.val.currentBlock)
                                                     \in seen.lags \cup {LagOf(r.val)}),
                                                !.lags = {}]
                              ELSE [seen EXCEPT !.syncing = Append(@, FALSE),
                                                !.lags = {}]
                 /\ IF r.val.syncing
                      THEN /\ metrics' = add_metric(
                                add_metric(metrics, "ether_syncing", <<>>, 1),
                                "ether_lag", <<>>,
                                Lag(highest, r.val.currentBlock))
                           /\ pc' = After("syncing")
                           /\ UNCHANGED error
                      ELSE /\ Raise("TypeError", "syncing")
                           /\ UNCHANGED metrics
                 /\ UNCHANGED failed
            ELSE IF r.exc \in CaughtSyncing
            THEN /\ failed' = failed \cup {Failure("syncing", "")}
                 /\ pc' = After("syncing")
                 /\ seen' = [seen EXCEPT !.lags = {}]
                 /\ UNCHANGED <<metrics, error>>
            ELSE /\ Raise(r.exc, "syncing")
                 /\ UNCHANGED <<metrics, seen, failed>>
  /\ UNCHANGED <<settings, node, accounts, todo, highest>>
  /\ UNCHANGED mainVars

\* lines 163-164 and 166-176: the test of web3.net.peerCount (first read)
PeerCount ==
  /\ pc = "peerCount"
  /\ \E r \in node.peerCount :
       /\ calls' = Append(calls, "peerCount")
       /\ IF r.exc = "none"
            THEN /\ seen' = Saw("peerCount", r.val)
                 /\ IF r.val # 0
                      THEN /\ pc' = "peerCount2"
                           /\ UNCHANGED metrics
                      ELSE /\ metrics' = ZeroPeersMetrics(metrics)
                           /\ pc' = After("peerCount")
                 /\ UNCHANGED <<failed, error>>
            ELSE IF r.exc \in CaughtPeers
            THEN /\ failed' = failed \cup {Failure("peerCount", "")}
                 /\ pc' = After("peerCount")
                 /\ UNCHANGED <<metrics, seen, error>>
            ELSE /\ Raise(r.exc, "peerCount")
                 /\ UNCHANGED <<metrics, seen, failed>>
  /\ UNCHANGED <<settings, node, accounts, todo, highest>>
  /\ UNCHANGED mainVars

\* line 165: the value added is a second read of web3.net.peerCount
PeerCount2 ==
  /\ pc = "peerCount2"
  /\ \E r \in node.peerCount :
       /\ calls' = Append(calls, "peerCount")
       /\ IF r.exc = "none"
            THEN /\ metrics' = add_metric(metrics, "ether_peers", <<>>, r.val)
                 /\ seen' = Saw("peerCount", r.val)
                 /\ pc' = After("peerCount")
                 /\ UNCHANGED <<failed, error>>
            ELSE IF r.exc \in CaughtPeers
            THEN /\ failed' = failed \cup {Failure("peerCount", "")}
                 /\ pc' = After("peerCount")
                 /\ UNCHANGED <<metrics, seen, error>>
            ELSE /\ Raise(r.exc, "peerCount")
                 /\ UNCHANGED <<metrics, seen, failed>>
  /\ UNCHANGED <<settings, node, accounts, todo, highest>>
  /\ UNCHANGED mainVars

\* lines 178-181: every family of the dictionary is yielded
Yield ==
  /\ pc = "return"
  /\ pc' = "done"
  /\ UNCHANGED <<settings, node, metrics, accounts, todo, highest, error, calls,
                 failed, seen>>
  /\ UNCHANGED mainVars

\* The locals of a collect() call that has not started or is over.
Locals ==
  /\ metrics = NoMetrics
  /\ accounts = {}
  /\ todo = {}
  /\ highest = 0
  /\ error = NoError
  /\ calls = <<>>
  /\ failed = {}
  /\ seen = NothingSeen

\* collect() is called: a new generator with fresh locals.
Call ==
  /\ pc' = "called"
  /\ metrics' = NoMetrics
  /\ accounts' = {}
  /\ todo' = {}
  /\ highest' = 0
  /\ error' = NoError
  /\ calls' = <<>>
  /\ failed' = {}
  /\ seen' = NothingSeen

\* The caller has consumed the generator: its locals are gone.
Return ==
  /\ pc' = "idle"
  /\ metrics' = NoMetrics
  /\ accounts' = {}
  /\ todo' = {}
  /\ highest' = 0
  /\ error' = NoError
  /\ calls' = <<>>
  /\ failed' = {}
  /\ seen' = NothingSeen

Collect ==
  \/ CollectBegin
  \/ ListAccounts
  \/ GetBalance
  \/ BlockNumber
  \/ GasPrice
  \/ Mining
  \/ HashRate
  \/ Syncing
  \/ SyncHighest
  \/ SyncCurrent
  \/ PeerCount
  \/ PeerCount2
  \/ Yield

(***************************************************************************)
(* One call of collect() under any settings, against any node.             *)
(***************************************************************************)
Init ==
  /\ settings \in SettingsChoices
  /\ settings.export = DefaultSettings.export
  /\ node = AnyNode
  /\ mainpc = "caller"
  /\ file = NoFile
  /\ response = NoResponse
  /\ pc = "called"
  /\ Locals

Next == Collect

Spec == Init /\ [][Next]_vars

\* One call of collect() against the node of the end-to-end scenario.
InitScenario ==
  /\ settings \in SettingsChoices
  /\ settings.export = DefaultSettings.export
  /\ node = ScenarioNode
  /\ mainpc = "caller"
  /\ file = NoFile
  /\ response = NoResponse
  /\ pc = "called"
  /\ Locals

SpecScenario == InitScenario /\ [][Next]_vars

(***************************************************************************)
(* The process: __main__, _collect_to_text, _collect_to_http.              *)
(***************************************************************************)
\* The exposition of the yielded families, in the order of the dictionary:
\* for each family its name, its type and its samples.
render(m) ==
  [i \in 1..Cardinality(DOMAIN m) |->
     [name |-> m[KeyOrder[i]].name, type |-> m[KeyOrder[i]].type,
      samples |-> m[KeyOrder[i]].samples]]

\* line 199: REGISTRY.register(EthereumCollector()); the registry calls
\* collect() once to learn the names of the collector's metrics
Register ==
  /\ mainpc = "register"
  /\ pc = "idle"
  /\ mainpc' = "registering"
  /\ Call
  /\ UNCHANGED <<settings, node, file, response>>

Registered ==
  /\ mainpc = "registering"
  /\ pc = "done"
  /\ mainpc' = "dispatch"
  /\ Return
  /\ UNCHANGED <<settings, node, file, response>>

\* lines 200-203
Dispatch ==
  /\ mainpc = "dispatch"
  /\ mainpc' = IF settings.export = "text" THEN "loop" ELSE "serve"
  /\ UNCHANGED <<settings, node, file, response>>
  /\ UNCHANGED collectVars

\* lines 184-186: write_to_textfile calls collect() of the collector
WriteCall ==
  /\ mainpc = "loop"
  /\ pc = "idle"
  /\ mainpc' = "writing"
  /\ Call
  /\ UNCHANGED <<settings, node, file, response>>

\* line 186 with the file opened for appending
WriteFileAppend ==
  /\ mainpc = "writing"
  /\ pc = "done"
  /\ file' = file \o render(metrics)
  /\ mainpc' = "sleep"
  /\ Return
  /\ UNCHANGED <<settings, node, response>>

\* line 186: the rendering replaces the content of the file
WriteFile ==
  /\ mainpc = "writing"
  /\ pc = "done"
  /\ file' = render(metrics)
  /\ mainpc' = "sleep"
  /\ Return
  /\ UNCHANGED <<settings, node, response>>

\* line 187
Sleep ==
  /\ mainpc = "sleep"
  /\ mainpc' = "loop"
  /\ UNCHANGED <<settings, node, file, response>>
  /\ UNCHANGED collectVars

\* An exception that leaves collect() in the main thread (line 199 or line
\* 186) is caught nowhere: the process ends with a traceback.
Crash ==
  /\ mainpc \in {"registering", "writing"}
  /\ pc = "raised"
  /\ mainpc' = "crashed"
  /\ UNCHANGED <<settings, node, file, response>>
  /\ UNCHANGED collectVars

\* line 191
StartHttp ==
  /\ mainpc = "serve"
  /\ mainpc' = "serving"
  /\ UNCHANGED <<settings, node, file, response>>
  /\ UNCHANGED collectVars

\* line 191: a scrape request arrives; the server's handler collects from
\* the registry, which calls collect()
Scrape ==
  /\ mainpc = "serving"
  /\ pc = "idle"
  /\ Call
  /\ UNCHANGED <<settings, node, mainpc, file, response>>

\* line 191 with a handler that renders once and keeps the text
RespondCached ==
  /\ mainpc = "serving"
  /\ pc = "done"
  /\ response' = IF response.status = "ok" THEN response
                  ELSE [status |-> "ok", body |-> render(metrics)]
  /\ Return
  /\ UNCHANGED <<settings, node, mainpc, file>>

\* line 191: the handler answers with the rendering
Respond ==
  /\ mainpc = "serving"
  /\ pc = "done"
  /\ response' = [status |-> "ok", body |-> render(metrics)]
  /\ Return
  /\ UNCHANGED <<settings, node, mainpc, file>>

\* line 191: an exception that leaves collect() ends the request, not the server
RespondError ==
  /\ mainpc = "serving"
  /\ pc = "raised"
  /\ response' = [status |-> "error", body |-> <<>>]
  /\ Return
  /\ UNCHANGED <<settings, node, mainpc, file>>

\* lines 192-193: the main thread sleeps while the server threads serve
HttpSleep ==
  /\ mainpc = "serving"
  /\ UNCHANGED vars

\* The process after _settings() (line 197), against a node that is either
\* unreachable or in one fixed condition.
InitMain ==
  /\ settings \in SettingsChoices
  /\ settings.additional_accounts = DefaultSettings.additional_accounts
  /\ node = SmallNode
  /\ mainpc = "register"
  /\ file = NoFile
  /\ response = NoResponse
  /\ pc = "idle"
  /\ Locals

NextMain ==
  \/ Collect
  \/ Register
  \/ Registered
  \/ Dispatch
  \/ WriteCall
  \/ WriteFile
  \/ Sleep
  \/ Crash
  \/ StartHttp
  \/ Scrape
  \/ Respond
  \/ RespondError
  \/ HttpSleep

SpecMain == InitMain /\ [][NextMain]_vars

(***************************************************************************)
(* Reading the state.                                                      *)
(***************************************************************************)
\* The cycle is over: collect() has yielded its families, or an exception
\* has left it.
Returned == pc = "done"
Escaped == pc = "raised"
Ended == Returned \/ Escaped

\* The names of the families the dictionary holds.
Names == {metrics[k].name : k \in DOMAIN metrics}
ScalarNames ==
  {"ether_block_number", "ether_gas_price_wei", "ether_mining", "ether_hash_rate",
   "ether_syncing", "ether_lag", "ether_peers"}

\* The samples of the family of a name: the empty bag when there is none.
Readings(name) ==
  IF name \in Names
    THEN metrics[CHOOSE k \in DOMAIN metrics : metrics[k].name = name].samples
    ELSE EmptyBag
NoReading(name) == Readings(name) = EmptyBag
\* exactly one reading, without labels, of value v
Reads(name, v) == Readings(name) = SetToBag({Sample(<<>>, v)})

Issued(q) == q \in ToSet(calls)
Failed(q) == Failure(q, "") \in failed

\* The five scalar/compound queries, in the order of the code.
Five == <<"blockNumber", "gasPrice", "mining", "syncing", "peerCount">>
\* How many of them are over when collect() is at pc.
Over ==
  CASE pc \in {"gasPrice"} -> 1
    [] pc \in {"mining", "hashrate"} -> 2
    [] pc \in {"syncing", "syncHighest", "syncCurrent"} -> 3
    [] pc \in {"peerCount", "peerCount2"} -> 4
    [] pc \in {"return", "done"} -> 5
    [] OTHER -> 0

\* The reading(s) a query that succeeded contributes.
Contributed(q) ==
  CASE q = "blockNumber" -> Reads("ether_block_number", seen.blockNumber[1])
    [] q = "gasPrice" -> Reads("ether_gas_price_wei", seen.gasPrice[1])
    [] q = "mining" -> Reads("ether_mining", IF seen.mining[1] THEN 1 ELSE 0)
    [] q = "syncing" ->
         /\ Reads("ether_syncing", IF seen.syncing[1] THEN 1 ELSE 0)
         /\ BagCardinality(Readings("ether_lag")) = 1
    [] q = "peerCount" ->
         Reads("ether_peers", seen.peerCount[Len(seen.peerCount)])

ListAccountsFailed ==
  /\ Len(calls) >= 1
  /\ calls[1] = "accounts"
  /\ seen.accounts = <<>>

(***************************************************************************)
(* The claims.                                                             *)
(***************************************************************************)

\* C1: whatever the outcomes of the RPC queries of a cycle, no exception
\* leaves collect().  (Violated: the read of web3.eth.accounts is in no try.)
C1_NoErrorEscapes == ~Escaped

\* C2: every cycle, whatever the outcomes of its queries, ends by yielding a
\* snapshot that has a family for each of the seven scalar metric names, empty
\* when its query failed, and a family account_balance exactly when
\* enable_accounts is on.
C2_EveryCycleYieldsEveryKey ==
  Ended =>
    /\ Returned
    /\ Names = ScalarNames \cup
                 (IF AccountsEnabled(settings) THEN {"account_balance"} ELSE {})
    /\ Failed("blockNumber") => NoReading("ether_block_number")
    /\ Failed("gasPrice") => NoReading("ether_gas_price_wei")
    /\ Failed("mining") => NoReading("ether_mining") /\ NoReading("ether_hash_rate")
    /\ Failed("hashrate") => NoReading("ether_hash_rate")
    /\ Failed("syncing") => NoReading("ether_syncing") /\ NoReading("ether_lag")
    /\ Failed("peerCount") => NoReading("ether_peers")

\* C3: a ConnectivityError or ProtocolError of one of the five scalar/compound
\* queries (or of the hash-rate read) never ends the cycle and never skips a
\* later query: once the cycle is past a query, that query was issued, and if
\* it did not fail its reading(s) are in the snapshot.
C3_ScalarQueriesIsolated ==
  /\ Escaped /\ error.at \in ToSet(Five) \cup {"hashrate"} => error.type \notin RpcErrors
  /\ \A i \in 1..Over :
       /\ Issued(Five[i])
       /\ ~Failed(Five[i]) => Contributed(Five[i])

\* a cycle has returned in which two of the five queries failed and the three
\* others contributed their readings
C3_Witness ==
  /\ Returned
  /\ Failed("gasPrice") /\ Failed("syncing")
  /\ ~Failed("blockNumber") /\ ~Failed("mining") /\ ~Failed("peerCount")
  /\ Reads("ether_block_number", 12345)
  /\ Reads("ether_peers", 1)

\* C4: when ListAccounts() fails, no exception leaves collect(), no balance
\* is queried, account_balance is present without readings, and the five
\* scalar/compound queries are still issued.
C4_ListAccountsFailureIsSkipped ==
  ListAccountsFailed =>
    /\ ~Escaped
    /\ ~Issued("getBalance")
    /\ "account_balance" \in Names /\ NoReading("account_balance")
    /\ Returned => \A i \in 1..5 : Issued(Five[i])

\* C5: a BalanceWei failure (ConnectivityError or ProtocolError) skips only
\* its address: no such failure leaves collect(), and after the loop there is
\* one account_balance reading for each address of the Account Set whose
\* query succeeded, with the value of that address converted to ether.
C5_BalanceFailureSkipsOneAddress ==
  /\ Escaped => error.at # "getBalance"
  /\ Over >= 1 /\ AccountsEnabled(settings) =>
       /\ Readings("account_balance") =
            SetToBag({Sample(<<"ETH", b[1], "ether">>, fromWei(b[2])) : b \in seen.getBalance})
       /\ {b[1] : b \in seen.getBalance} = accounts \ {f[2] : f \in failed}

\* C6: the exporter loop never terminates because of RPC failures: the
\* process is never ended by an exception out of a collection cycle, the one
\* of the registration at startup included.
C6_ProcessNeverCrashes == mainpc # "crashed"

\* C7: if IsMining() returned false, the snapshot holds ether_mining = 0 and
\* ether_hash_rate = 0, and HashRate() is not invoked in that cycle.
C7_NotMiningReadsZero ==
  seen.mining = <<FALSE>> =>
    /\ Reads("ether_mining", 0)
    /\ Reads("ether_hash_rate", 0)
    /\ ~Issued("hashrate")

\* a cycle has returned in which IsMining() answered false
C7_Witness == Returned /\ seen.mining = <<FALSE>> /\ Reads("ether_hash_rate", 0)

\* C8: if IsMining() failed, ether_mining and ether_hash_rate have no
\* reading, and HashRate() is not invoked in that cycle.
C8_MiningFailureOmitsBoth ==
  Failed("mining") =>
    /\ NoReading("ether_mining")
    /\ NoReading("ether_hash_rate")
    /\ ~Issued("hashrate")

\* a cycle has returned in which IsMining() failed
C8_Witness == Returned /\ Failed("mining") /\ Issued("mining")

\* C9: no snapshot holds a negative ether_lag reading.  (Violated: the
\* difference of line 146 is added as it is.)
C9_LagNeverNegative ==
  Returned =>
    /\ \A s \in BagToSet(Readings("ether_lag")) : s.value >= 0
    /\ \A h \in Heights, c \in Heights :
         seen.highestBlock = <<h>> /\ seen.currentBlock = <<c>> /\ h < c =>
           NoReading("ether_syncing") /\ NoReading("ether_lag")

\* C10: once the sync step is over without a failure: if the node reported
\* fully synced, ether_syncing = 0 and ether_lag = 0; if it reported progress
\* with highestBlock h >= currentBlock c, ether_syncing = 1 and ether_lag = h - c.
C10_SyncReadings ==
  Over >= 4 /\ ~Failed("syncing") =>
    IF seen.syncing = <<FALSE>>
      THEN Reads("ether_syncing", 0) /\ Reads("ether_lag", 0)
      ELSE \A h \in Heights, c \in Heights :
             seen.highestBlock = <<h>> /\ seen.currentBlock = <<c>> /\ h >= c =>
               Reads("ether_syncing", 1) /\ Reads("ether_lag", h - c)

\* a cycle has returned in which the node reported progress with
\* highestBlock = MaxHeight and currentBlock = 0
C10_Witness ==
  /\ Returned
  /\ seen.syncing = <<TRUE, TRUE, TRUE>>
  /\ seen.highestBlock = <<MaxHeight>> /\ seen.currentBlock = <<0>>
  /\ Reads("ether_lag", MaxHeight)

\* C11: in a yielded snapshot, ether_peers has no reading only if a read of
\* the peer count failed; otherwise it has exactly one reading, whose value
\* is the count the node reported (the last one read); a reported count of
\* zero gives an explicit ether_peers = 0.
C11_PeersReading ==
  Returned =>
    /\ NoReading("ether_peers") <=> Failed("peerCount")
    /\ ~Failed("peerCount") =>
         /\ BagCardinality(Readings("ether_peers")) = 1
         /\ Reads("ether_peers", seen.peerCount[Len(seen.peerCount)])
    /\ seen.peerCount = <<0>> => Reads("ether_peers", 0)

\* a snapshot has been yielded after the node reported zero peers
C11_Witness == Returned /\ seen.peerCount = <<0>> /\ Reads("ether_peers", 0)

\* The number of calls of query q issued so far in this cycle.
Count(q) == Cardinality({i \in DOMAIN calls : calls[i] = q})
\* The addresses whose balance query is over: answered, or failed and skipped.
Answered == {b[1] : b \in seen.getBalance}
Skipped == {f[2] : f \in {g \in failed : g[1] = "getBalance"}}

\* C12: when ListAccounts() succeeded, the Account Set is the union of the
\* addresses it returned and the additional accounts; each address is queried
\* at most once and, once the loop is over, exactly once; an address has at
\* most one account_balance reading.  So an additional account is queried
\* even if the node lists no account.
C12_AccountSetIsUnion ==
  seen.accounts # <<>> =>
    /\ accounts = seen.accounts[1] \cup ToSet(settings.additional_accounts)
    /\ todo \subseteq accounts
    /\ Answered \cup Skipped \subseteq accounts \ todo
    /\ Answered \cap Skipped = {}
    /\ Count("getBalance") =
         Cardinality(accounts \ todo) +
           (IF Escaped /\ error.at = "getBalance" THEN 1 ELSE 0)
    /\ ~Escaped => Answered \cup Skipped = accounts \ todo
    /\ Over >= 1 => todo = {}
    /\ BagCardinality(Readings("account_balance")) = Cardinality(Answered)
    /\ {s.labels[2] : s \in BagToSet(Readings("account_balance"))} = Answered

\* a snapshot has been yielded in which the node listed no account and the
\* additional account 0xC has its reading
C12_Witness ==
  /\ Returned
  /\ seen.accounts = <<{}>>
  /\ settings.additional_accounts = <<"0xC">>
  /\ Readings("account_balance") =
       SetToBag({Sample(<<"ETH", "0xC", "ether">>, fromWei(Dec(2, 18)))})

\* C13: in serve-on-demand mode a collection cycle starts only with a scrape
\* request and starts fresh (no call issued yet, no family built); the
\* answer to the request is the rendering of the snapshot of that cycle (an
\* error when an exception left the cycle), and the answer changes at no
\* other step.
C13_ScrapeIsFresh ==
  [][mainpc = "serving" =>
       /\ (pc = "idle" /\ pc' # "idle") =>
            /\ pc' = "called"
            /\ calls' = <<>> /\ metrics' = NoMetrics /\ seen' = NothingSeen
       /\ (pc # "idle" /\ pc' = "idle") =>
            /\ Ended
            /\ Returned => response' = [status |-> "ok", body |-> render(metrics)]
            /\ Escaped => response'.status = "error"
       /\ ~(pc # "idle" /\ pc' = "idle") => response' = response
       /\ mainpc' = "serving"]_vars

\* the endpoint has answered a scrape with a rendering in which
\* ether_block_number has no sample, and idles
C13_Witness ==
  /\ mainpc = "serving"
  /\ pc = "idle"
  /\ response.status = "ok"
  /\ response.body[1].name = "ether_block_number"
  /\ response.body[1].samples = EmptyBag
  /\ response.body[7].samples # EmptyBag

\* C14: in push-to-file mode the main thread goes from the call of collect()
\* to the write, to the sleep and back; the file changes only at the write,
\* and the write makes it the rendering of the snapshot just built, nothing
\* else.
C14_WriteIsFullOverwrite ==
  [][/\ mainpc = "loop" => mainpc' = "writing" /\ pc' = "called"
     /\ mainpc = "writing" => mainpc' \in {"writing", "sleep", "crashed"}
     /\ mainpc = "sleep" => mainpc' = "loop"
     /\ (mainpc = "writing" /\ mainpc' = "sleep") =>
          Returned /\ file' = render(metrics)
     /\ ~(mainpc = "writing" /\ mainpc' = "sleep") => file' = file]_vars

\* the loop sleeps after a write whose snapshot has all eight families, no
\* block number and one peer
C14_Witness ==
  /\ mainpc = "sleep"
  /\ Len(file) = 8
  /\ file[1].name = "ether_block_number" /\ file[1].samples = EmptyBag
  /\ file[7].samples = SetToBag({Sample(<<>>, 1)})

\* C15: the families of a cycle hold only what the RPC calls of that cycle
\* returned: nothing before the cycle begins, no reading for a failed query,
\* at most one reading per scalar metric and that the value of this cycle,
\* the Account Set of this cycle's listing, and one balance reading per
\* address answered in this cycle.
C15_CleanSnapshot ==
  /\ pc \in {"idle", "called"} => metrics = NoMetrics
  /\ pc \notin {"idle", "called"} =>
       /\ Failed("blockNumber") => NoReading("ether_block_number")
       /\ Failed("gasPrice") => NoReading("ether_gas_price_wei")
       /\ Failed("mining") => NoReading("ether_mining") /\ NoReading("ether_hash_rate")
       /\ Failed("hashrate") => NoReading("ether_hash_rate")
       /\ Failed("syncing") => NoReading("ether_syncing") /\ NoReading("ether_lag")
       /\ Failed("peerCount") => NoReading("ether_peers")
       /\ \A n \in ScalarNames : BagCardinality(Readings(n)) <= 1
       /\ \A i \in 1..Over : ~Failed(Five[i]) => Contributed(Five[i])
       /\ \A i \in (Over + 1)..5 :
            Five[i] \notin ToSet(calls) =>
              /\ Five[i] = "blockNumber" => NoReading("ether_block_number")
              /\ Five[i] = "gasPrice" => NoReading("ether_gas_price_wei")
              /\ Five[i] = "mining" => NoReading("ether_mining") /\ NoReading("ether_hash_rate")
              /\ Five[i] = "syncing" => NoReading("ether_syncing") /\ NoReading("ether_lag")
              /\ Five[i] = "peerCount" => NoReading("ether_peers")
       /\ seen.accounts # <<>> =>
            accounts = seen.accounts[1] \cup ToSet(settings.additional_accounts)
       /\ Readings("account_balance") =
            SetToBag({Sample(<<"ETH", b[1], "ether">>, fromWei(b[2])) : b \in seen.getBalance})

\* a later cycle of the loop has built its snapshot: the file still holds a
\* block number and a balance from the cycle before, the block number query
\* of this cycle failed and the node lists no account any more
C15_Witness ==
  /\ mainpc = "writing"
  /\ Returned
  /\ Len(file) = 8
  /\ file[1].samples # EmptyBag /\ file[8].samples # EmptyBag
  /\ Failed("blockNumber") /\ NoReading("ether_block_number")
  /\ seen.accounts = <<{}>> /\ NoReading("account_balance")

\* The node answered every query of the cycle, with the values of the
\* end-to-end scenario.
ScenarioAnswers ==
  /\ failed = {}
  /\ seen.accounts = <<{"0xABC"}>>
  /\ seen.getBalance = {<<"0xABC", Dec(2, 18)>>}
  /\ seen.blockNumber = <<12345>>
  /\ seen.gasPrice = <<Dec(2, 10)>>
  /\ seen.mining = <<FALSE>>
  /\ seen.syncing = <<FALSE>>
  /\ seen.peerCount = <<5, 5>>

\* C16: with account collection enabled, no additional account and every
\* query answered with the scenario's values (block 12345, gas price 2*10^10
\* wei, not mining, fully synced, 5 peers, 0xABC holding 2*10^18 wei), the
\* cycle ends with a snapshot of exactly ether_block_number = 12345,
\* ether_gas_price_wei = 2*10^10, ether_mining = 0, ether_hash_rate = 0,
\* ether_syncing = 0, ether_lag = 0, ether_peers = 5 and one account_balance
\* reading labelled (ETH, 0xABC, ether) of value 2.
C16_EndToEnd ==
  /\ Ended /\ ScenarioAnswers => Returned
  /\ Returned /\ AccountsEnabled(settings) /\ settings.additional_accounts = <<>>
       /\ ScenarioAnswers =>
       /\ Reads("ether_block_number", 12345)
       /\ Reads("ether_gas_price_wei", Dec(2, 10))
       /\ Reads("ether_mining", 0)
       /\ Reads("ether_hash_rate", 0)
       /\ Reads("ether_syncing", 0)
       /\ Reads("ether_lag", 0)
       /\ Reads("ether_peers", 5)
       /\ Readings("account_balance") =
            SetToBag({Sample(<<"ETH", "0xABC", "ether">>, Dec(2, 0))})
       /\ Names = ScalarNames \cup {"account_balance"}

\* the scenario has run to its end
C16_Witness ==
  /\ Returned /\ AccountsEnabled(settings) /\ settings.additional_accounts = <<>>
  /\ ScenarioAnswers
  /\ Reads("ether_peers", 5)
  /\ Readings("account_balance") =
       SetToBag({Sample(<<"ETH", "0xABC", "ether">>, Dec(2, 0))})

\* C17: no cycle ends with an error because the node's sync state changed
\* between the reads of web3.eth.syncing, and whenever the snapshot has
\* ether_syncing = 1 its ether_lag is highestBlock - currentBlock of one
\* single sync-status response of the cycle.
C17_SyncPairFromOneResponse ==
  /\ ~(Escaped /\ error.type = "TypeError" /\ error.at = "syncing")
  /\ Returned /\ Reads("ether_syncing", 1) => seen.joint = <<TRUE>>

\* The group of a query in the order of the metric catalogue.
Group(q) ==
  CASE q \in {"accounts", "getBalance"} -> 1
    [] q = "blockNumber" -> 2
    [] q = "gasPrice" -> 3
    [] q \in {"mining", "hashrate"} -> 4
    [] q = "syncing" -> 5
    [] q = "peerCount" -> 6

\* C18: the calls of a cycle are issued in the order account listing and
\* balances, block number, gas price, mining and hash rate, sync status, peer
\* count: every call is of the group of the call before it or of a later
\* one, the listing is the first call, the hash rate call follows IsMining
\* at once, block number, gas price and IsMining each open their group,
\* accounts are queried only when enabled, and a cycle that returns has
\* issued a call of each of the five scalar groups whatever the earlier
\* calls gave.
C18_FixedQueryOrder ==
  /\ \A i \in 2..Len(calls) :
       /\ Group(calls[i - 1]) <= Group(calls[i])
       /\ calls[i] # "accounts"
       /\ calls[i] = "hashrate" => calls[i - 1] = "mining"
       /\ calls[i] \in {"blockNumber", "gasPrice", "mining"} =>
            Group(calls[i - 1]) < Group(calls[i])
  /\ calls # <<>> => calls[1] # "hashrate"
  /\ ~AccountsEnabled(settings) => ~Issued("accounts") /\ ~Issued("getBalance")
  /\ Returned => \A i \in DOMAIN Five : Issued(Five[i])

\* a cycle has issued every kind of call, the block number query failed and
\* the cycle went on
C18_Witness ==
  /\ Returned
  /\ Failed("blockNumber")
  /\ calls = <<"accounts", "getBalance", "blockNumber", "gasPrice", "mining", "hashrate",
               "syncing", "syncing", "syncing", "peerCount", "peerCount">>

\* C19 as claimed: in every snapshot ether_mining has a reading if and only
\* if ether_hash_rate has one.
C19_MiningPairJoint ==
  Returned => (NoReading("ether_mining") <=> NoReading("ether_hash_rate"))

\* C19, amended: in every snapshot ether_hash_rate has a reading only if
\* ether_mining has one, and ether_mining has a reading without
\* ether_hash_rate exactly when IsMining() returned true and HashRate()
\* failed (ether_mining then reads 1).
C19_MiningPair ==
  Returned =>
    /\ ~NoReading("ether_hash_rate") => ~NoReading("ether_mining")
    /\ (~NoReading("ether_mining") /\ NoReading("ether_hash_rate"))
         <=> (seen.mining = <<TRUE>> /\ Failed("hashrate"))
    /\ seen.mining = <<TRUE>> /\ Failed("hashrate") => Reads("ether_mining", 1)

\* IsMining() returned true, HashRate() failed and the snapshot was yielded
C19_Witness ==
  /\ Returned
  /\ seen.mining = <<TRUE>> /\ Failed("hashrate")
  /\ Reads("ether_mining", 1) /\ NoReading("ether_hash_rate")

====
